---- MODULE Spec2Model ----
(***************************************************************************)
(* The experiment harness of tools/test.py: ConstModifier (capture, patch  *)
(* and restore of consts.rs), ProcessManager (the four subject processes   *)
(* of a run) and ExperimentRunner (run_single_test, run_all_experiments).  *)
(*                                                                         *)
(* Time is counted in ticks of 0.5 s, the poll interval of the loop; the   *)
(* clock `now` is the time since the ProcessManager of the current run was *)
(* created (only differences of clock readings within a run are used).     *)
(* A subject process launched at time s with lifetime L > 0 has exited at  *)
(* every reading >= s + L; lifetime 0 is a process that never exits by     *)
(* itself.                                                                 *)
(***************************************************************************)
EXTENDS Integers, Sequences, FiniteSets, TLC

VARIABLES
    pc,               \* position of the controller in run_all_experiments
    exc,              \* the exception in flight ("none" when there is none)
    consts_file,      \* consts.rs on disk: a sequence of lines, each with its
                      \* line ending
    original_content, \* ConstModifier.original_content: <<>> is None, <<c>> is c
    p_idx,            \* index of param_config in param_combinations (from 1)
    repeat_idx,       \* repeat_idx of the running repeat, in range(4)
    result,           \* `result` of line 405: <<>> is None, <<r>> a TestResult
    results,          \* ExperimentRunner.results
    build_outcome,    \* the build of this run: "none", "ok", "failed", "timeout"
    processes,        \* names in pm.processes
    start_times,      \* pm.start_times
    end_times,        \* pm.end_times
    terminated,       \* processes that terminate_all() sent a signal to
    lingering,        \* of those, the ones sent kill() whose exit nothing
                      \* waited for and that have not gone yet
    replaced,         \* <<name, start time>> of the processes whose entry in
                      \* pm.processes a later start_process(name) overwrote
    tx_completed,     \* line 323
    rx_completed,     \* line 324
    start_wait,       \* line 328
    now,              \* the clock
    lifetime,         \* the subject: how long each role runs by itself
    saved,            \* the results documents written by save_results
    restore_count,    \* history: number of calls of ConstModifier.restore
    attempted,        \* history: the <<p_idx, repeat_idx>> whose run has begun
    failed_builds,    \* history: the <<p_idx, repeat_idx>> whose build failed
    file_at_start,    \* history: consts.rs on disk when the session began
    last_call         \* history: the call made directly on a ConstModifier
                      \* or a ProcessManager that has just returned, and
                      \* what it returned

vars == <<pc, exc, consts_file, original_content, p_idx, repeat_idx, result,
          results, build_outcome, processes, start_times, end_times,
          terminated, lingering, replaced, tx_completed, rx_completed,
          start_wait, now, lifetime, saved, restore_count, attempted,
          failed_builds, file_at_start, last_call>>

pm_vars == <<processes, start_times, end_times, terminated, lingering,
             replaced, tx_completed, rx_completed, start_wait, now>>

hist_vars == <<restore_count, attempted, failed_builds, file_at_start,
               last_call>>

(***************************************************************************)
(* Bounds of the model and constants of the program.                       *)
(***************************************************************************)
\* Number of parameter sets of the enumeration a session runs (the code has 9).
NumParamSets == 2

\* Line 327, total_timeout = 120 s (240 ticks), scaled down.
total_timeout == 6

\* The "5 seconds" of Scenario A (10 ticks), scaled down with total_timeout.
FiveSeconds == 4

\* range(4) of line 404.
Repeats == 4

\* time.sleep(1) of lines 312 and 314.
SleepRx == 2

\* time.sleep(0.5) of line 316.
SleepTx == 1

\* time.sleep(0.5) of line 350.
PollSleep == 1

\* The value get_duration returns for "not completed" (line 234).
Sentinel == -1

\* proc.wait(timeout=2) of line 243.
GraceWait == 4

\* The launch of tx1 happens SleepRx + SleepRx + SleepTx after that of rx2.
LaunchSpan == SleepRx + SleepRx + SleepTx

\* A lifetime beyond this one is never seen by the poll loop of any role.
MaxLifetime == LaunchSpan + total_timeout

Lifetimes == 0 .. MaxLifetime

(***************************************************************************)
(* ExperimentConfig.get_parameter_combinations                             *)
(***************************************************************************)
ParamSet(n, spl, pre, difs, cwmin, cwmax, slot, frame) ==
    [name |-> n, SAMPLES_PER_LEVEL |-> spl, PREAMBLE_PATTERN_BYTES |-> pre,
     DIFS_DURATION_MS |-> difs, CW_MIN |-> cwmin, CW_MAX |-> cwmax,
     SLOT_TIME_MS |-> slot, MAX_FRAME_DATA_SIZE |-> frame]

AllParamSets ==
    << ParamSet("baseline", 3, 4, 20, 10, 200, 5, 768),
       ParamSet("larger mincw", 3, 4, 20, 50, 200, 5, 768),
       ParamSet("1024 frame", 3, 4, 20, 10, 200, 5, 1024),
       ParamSet("512 frame", 3, 4, 20, 10, 200, 5, 512) >>

get_parameter_combinations == SubSeq(AllParamSets, 1, NumParamSets)

param_combinations == get_parameter_combinations

(***************************************************************************)
(* consts.rs and ConstModifier                                             *)
(***************************************************************************)
\* A line `pub const NAME: type = value;`, a comment line that quotes such a
\* declaration, `// pub const NAME: type = value;`, and a line of any other
\* text, each ending in "\n" ("LF").
PubConst(n, v) == [kind |-> "pub_const", name |-> n, value |-> v, eol |-> "LF"]

Comment(n, v) == [kind |-> "comment", name |-> n, value |-> v, eol |-> "LF"]

OtherText(i) == [kind |-> "text", name |-> "", value |-> i, eol |-> "LF"]

\* The same lines ending in "\r\n".
WithCRLF(content) ==
    [i \in DOMAIN content |-> [content[i] EXCEPT !.eol = "CRLF"]]

\* os.linesep: the host is a POSIX system.
os_linesep == "LF"

\* Path.read_text: text mode with universal newlines, every line ending is
\* read as "\n".
read_text(bytes) == [i \in DOMAIN bytes |-> [bytes[i] EXCEPT !.eol = "LF"]]

\* Path.write_text: text mode, every "\n" is written as os.linesep.
write_text(text) ==
    [i \in DOMAIN text |->
        [text[i] EXCEPT !.eol = IF @ = "LF" THEN os_linesep ELSE @]]

\* The keys of `updates`, in the order of lines 171-179.
UpdateKeys ==
    << "SAMPLES_PER_LEVEL", "PREAMBLE_PATTERN_BYTES", "DIFS_DURATION_MS",
       "CW_MIN", "CW_MAX", "SLOT_TIME_MS", "MAX_FRAME_DATA_SIZE" >>

\* Whether the pattern of line 184 for param_name matches in the line: the
\* text `pub const NAME: type = digits` wherever it stands, in a comment too.
PatternMatches(line, param_name) ==
    line.kind \in {"pub_const", "comment"} /\ line.name = param_name

\* re.sub of line 186: the literal of every match becomes param_value.
ReSub(content, param_name, param_value) ==
    [i \in DOMAIN content |->
        IF PatternMatches(content[i], param_name)
        THEN [content[i] EXCEPT !.value = param_value]
        ELSE content[i]]

\* The loop of lines 181-186 from key k on; params.get(key) is None for a key
\* that params does not have.
RECURSIVE ApplyUpdates_stops_at_missing(_, _, _)
ApplyUpdates_stops_at_missing(content, params, k) ==
    IF k > Len(UpdateKeys) THEN content
    ELSE LET key == UpdateKeys[k]
         IN  IF key \in DOMAIN params
             THEN IF \E i \in DOMAIN content : PatternMatches(content[i], key)
                  THEN ApplyUpdates_stops_at_missing(
                           ReSub(content, key, params[key]), params, k + 1)
                  ELSE content
             ELSE ApplyUpdates_stops_at_missing(content, params, k + 1)

RECURSIVE ApplyUpdates(_, _, _)
ApplyUpdates(content, params, k) ==
    IF k > Len(UpdateKeys) THEN content
    ELSE LET key == UpdateKeys[k]
         IN  IF key \in DOMAIN params
             THEN ApplyUpdates(ReSub(content, key, params[key]), params, k + 1)
             ELSE ApplyUpdates(content, params, k + 1)

\* ConstModifier.update_params: the file after the call, given the file
\* before it.
update_params(bytes, params) ==
    write_text(ApplyUpdates(read_text(bytes), params, 1))

\* ConstModifier.read_original: the value of original_content after the call.
read_original_none(bytes) == <<>>

read_original(bytes) == <<read_text(bytes)>>

\* ConstModifier.restore: the file after the call. `if self.original_content`
\* is false for None and for the empty string.
restore_skips(bytes, original) == bytes

restore(bytes, original) ==
    IF original # <<>> /\ original[1] # <<>> THEN write_text(original[1])
    ELSE bytes

\* The configuration files a session may start from.
EmptyFile == <<>>

TypicalFile ==
    << OtherText(1), PubConst("SAMPLE_RATE", 48000), PubConst("CW_MIN", 16),
       PubConst("MAX_FRAME_DATA_SIZE", 256), OtherText(2) >>

Files == {EmptyFile, TypicalFile, WithCRLF(TypicalFile)}

(***************************************************************************)
(* ProcessManager                                                          *)
(***************************************************************************)
tx_processes == {"tx1", "tx2"}

rx_processes == {"rx1", "rx2"}

Roles == tx_processes \cup rx_processes

\* The order of the start_process calls of lines 311-317.
LaunchOrderTxFirst == <<"tx2", "tx1", "rx2", "rx1">>

LaunchOrder == <<"rx2", "rx1", "tx2", "tx1">>

\* The sleep after the k-th launch (lines 312, 314, 316; none after the 4th).
SleepAfterLaunch(k) ==
    IF k <= 2 THEN SleepRx ELSE IF k = 3 THEN SleepTx ELSE 0

\* proc.poll() is not None at clock reading t: the process was stopped and is
\* gone, or has exited by itself.
HasExitedAt(name, t) ==
    \/ name \in terminated \ lingering
    \/ lifetime[name] > 0 /\ t >= start_times[name] + lifetime[name]

HasExited(name) == HasExitedAt(name, now)

\* ProcessManager.get_duration.
get_duration_zero(name) ==
    IF name \in DOMAIN start_times /\ name \in DOMAIN end_times
    THEN end_times[name] - start_times[name]
    ELSE 0

get_duration(name) ==
    IF name \in DOMAIN start_times /\ name \in DOMAIN end_times
    THEN end_times[name] - start_times[name]
    ELSE Sentinel

\* The loop of terminate_all() from the k-th entry of pm.processes on, begun
\* at clock reading t, against the set S of processes that do not exit within
\* the wait after terminate(): an entry whose poll() is None is sent
\* terminate() and waited for, for the whole GraceWait and then sent kill()
\* when it is in S. pm.processes is iterated in the order of first insertion,
\* which is LaunchOrder.
RECURSIVE TerminateFrom(_, _, _)
TerminateFrom(k, t, S) ==
    IF k > Len(LaunchOrder) THEN [signalled |-> {}, clock |-> t]
    ELSE LET name == LaunchOrder[k]
         IN  IF name \in processes /\ ~HasExitedAt(name, t)
             THEN LET rest == TerminateFrom(
                                  k + 1,
                                  IF name \in S THEN t + GraceWait ELSE t, S)
                  IN  [signalled |-> rest.signalled \cup {name},
                       clock |-> rest.clock]
             ELSE TerminateFrom(k + 1, t, S)

\* ProcessManager.terminate_all: the processes it signals and the clock when
\* it returns.
terminate_all_rx_only(S) ==
    [TerminateFrom(1, now, S) EXCEPT !.signalled = @ \cap rx_processes]

terminate_all(S) == TerminateFrom(1, now, S)

(***************************************************************************)
(* ExperimentRunner.run_single_test                                        *)
(***************************************************************************)
\* The break condition of line 346.
LoopExitBoth(txc, rxc) == txc = tx_processes /\ rxc = rx_processes

LoopExit_on_any(txc, rxc) == txc # {} \/ rxc # {}

LoopExit(txc, rxc) == txc = tx_processes \/ rxc = rx_processes

\* The condition of line 353 under which terminate_all() is called.
NeedsTerminate == tx_completed # tx_processes \/ rx_completed # rx_processes

Max2(a, b) == IF a >= b THEN a ELSE b

Min2(a, b) == IF a <= b THEN a ELSE b

\* max(...) of line 369.
max_of_min(a, b, c, d) == Min2(Min2(a, b), Min2(c, d))

max_of(a, b, c, d) == Max2(Max2(a, b), Max2(c, d))

\* repeat=repeat_idx + 1 of line 385.
RepeatOfZeroBased(idx) == idx

RepeatOf(idx) == idx + 1

\* A TestResult numbered by the results its parameter set already has.
MakeResult_renumbers(param_config, idx) ==
    [config_name |-> param_config.name,
     samples_per_level |-> param_config.SAMPLES_PER_LEVEL,
     preamble_bytes |-> param_config.PREAMBLE_PATTERN_BYTES,
     difs_duration_ms |-> param_config.DIFS_DURATION_MS,
     cw_min |-> param_config.CW_MIN,
     cw_max |-> param_config.CW_MAX,
     slot_time_ms |-> param_config.SLOT_TIME_MS,
     max_frame_data_size |-> param_config.MAX_FRAME_DATA_SIZE,
     tx1_time |-> get_duration("tx1"),
     tx2_time |-> get_duration("tx2"),
     rx1_time |-> get_duration("rx1"),
     rx2_time |-> get_duration("rx2"),
     max_time |-> max_of(get_duration("tx1"), get_duration("tx2"),
                         get_duration("rx1"), get_duration("rx2")),
     repeat |-> 1 + Cardinality({i \in DOMAIN results :
                        results[i].config_name = param_config.name})]

\* The TestResult of lines 357-386.
MakeResult(param_config, idx) ==
    [config_name |-> param_config.name,
     samples_per_level |-> param_config.SAMPLES_PER_LEVEL,
     preamble_bytes |-> param_config.PREAMBLE_PATTERN_BYTES,
     difs_duration_ms |-> param_config.DIFS_DURATION_MS,
     cw_min |-> param_config.CW_MIN,
     cw_max |-> param_config.CW_MAX,
     slot_time_ms |-> param_config.SLOT_TIME_MS,
     max_frame_data_size |-> param_config.MAX_FRAME_DATA_SIZE,
     tx1_time |-> get_duration("tx1"),
     tx2_time |-> get_duration("tx2"),
     rx1_time |-> get_duration("rx1"),
     rx2_time |-> get_duration("rx2"),
     max_time |-> max_of(get_duration("tx1"), get_duration("tx2"),
                         get_duration("rx1"), get_duration("rx2")),
     repeat |-> RepeatOf(idx)]

(***************************************************************************)
(* The subject and the initial states                                      *)
(***************************************************************************)
EmptyMap == [n \in {} |-> 0]

\* No call has been made directly on a ConstModifier or a ProcessManager.
NoCall == [op |-> "none"]

\* The subjects a whole session is run against: one whose four processes exit
\* in the same tick, one whose tx1 hangs while the others exit at once
\* (Scenario B), and one of which no process ever exits.
SessionProfiles ==
    { [n \in Roles |-> CASE n = "rx2" -> 6 [] n = "rx1" -> 4
                         [] n = "tx2" -> 2 [] OTHER -> 1],
      [n \in Roles |-> IF n = "tx1" THEN 0 ELSE 1],
      [n \in Roles |-> 0] }

\* The state after ExperimentRunner(config) is constructed.
Init ==
    /\ pc = "init"
    /\ exc = "none"
    /\ consts_file \in Files
    /\ original_content = <<>>
    /\ p_idx = 0
    /\ repeat_idx = 0
    /\ result = <<>>
    /\ results = <<>>
    /\ build_outcome = "none"
    /\ processes = {}
    /\ start_times = EmptyMap
    /\ end_times = EmptyMap
    /\ terminated = {}
    /\ lingering = {}
    /\ replaced = {}
    /\ tx_completed = {}
    /\ rx_completed = {}
    /\ start_wait = 0
    /\ now = 0
    /\ lifetime \in SessionProfiles
    /\ saved = <<>>
    /\ restore_count = 0
    /\ attempted = {}
    /\ failed_builds = {}
    /\ file_at_start = consts_file
    /\ last_call = NoCall

\* The runs of a session, in the order of the loops of lines 403-404.
AllRuns == (1 .. Len(param_combinations)) \X (0 .. Repeats - 1)

LastRun == <<Len(param_combinations), Repeats - 1>>

\* A session over TypicalFile on entry to its last repeat, the build of every
\* earlier repeat having failed, against a subject of any lifetimes.
InitRun ==
    /\ pc = "update"
    /\ exc = "none"
    /\ original_content = read_original(TypicalFile)
    /\ consts_file = update_params(TypicalFile, param_combinations[LastRun[1]])
    /\ p_idx = LastRun[1]
    /\ repeat_idx = LastRun[2]
    /\ result = <<>>
    /\ results = <<>>
    /\ build_outcome = "failed"
    /\ processes = {}
    /\ start_times = EmptyMap
    /\ end_times = EmptyMap
    /\ terminated = {}
    /\ lingering = {}
    /\ replaced = {}
    /\ tx_completed = {}
    /\ rx_completed = {}
    /\ start_wait = 0
    /\ now = 0
    /\ lifetime \in [Roles -> Lifetimes]
    /\ saved = <<>>
    /\ restore_count = 0
    /\ attempted = AllRuns \ {LastRun}
    /\ failed_builds = AllRuns \ {LastRun}
    /\ file_at_start = TypicalFile
    /\ last_call = NoCall

(***************************************************************************)
(* ExperimentRunner.run_all_experiments, step by step                      *)
(***************************************************************************)
\* Lines 397-405: read_original(), then the loops bind the first run.
ReadOriginal ==
    /\ pc = "init"
    /\ original_content' = read_original(consts_file)
    /\ p_idx' = 1
    /\ repeat_idx' = 0
    /\ pc' = "update"
    /\ UNCHANGED <<exc, consts_file, result, results, build_outcome, pm_vars,
                   lifetime, saved, hist_vars>>

\* update_params capturing again the content it is about to patch.
UpdateParams_recaptures ==
    /\ pc = "update"
    /\ consts_file' = update_params(consts_file, param_combinations[p_idx])
    /\ original_content' = read_original(consts_file)
    /\ processes' = {}
    /\ start_times' = EmptyMap
    /\ end_times' = EmptyMap
    /\ terminated' = {}
    /\ lingering' = {}
    /\ replaced' = {}
    /\ tx_completed' = {}
    /\ rx_completed' = {}
    /\ start_wait' = 0
    /\ now' = 0
    /\ build_outcome' = "none"
    /\ attempted' = attempted \cup {<<p_idx, repeat_idx>>}
    /\ pc' = "build"
    /\ UNCHANGED <<exc, p_idx, repeat_idx, result, results,
                   lifetime, saved, restore_count, failed_builds,
                   file_at_start, last_call>>

\* Lines 279-292: run_single_test is entered (no ProcessManager exists yet)
\* and patches consts.rs.
UpdateParams ==
    /\ pc = "update"
    /\ consts_file' = update_params(consts_file, param_combinations[p_idx])
    /\ processes' = {}
    /\ start_times' = EmptyMap
    /\ end_times' = EmptyMap
    /\ terminated' = {}
    /\ lingering' = {}
    /\ replaced' = {}
    /\ tx_completed' = {}
    /\ rx_completed' = {}
    /\ start_wait' = 0
    /\ now' = 0
    /\ build_outcome' = "none"
    /\ attempted' = attempted \cup {<<p_idx, repeat_idx>>}
    /\ pc' = "build"
    /\ UNCHANGED <<exc, original_content, p_idx, repeat_idx, result, results,
                   lifetime, saved, restore_count, failed_builds,
                   file_at_start, last_call>>

\* The build without the timeout of line 269: a cargo build that does not
\* return is waited for without end.
Build_no_timeout ==
    /\ pc = "build"
    /\ \/ /\ build_outcome' = "ok"
          /\ pc' = "launch"
          /\ UNCHANGED <<exc, result, failed_builds>>
       \/ /\ build_outcome' = "failed"
          /\ result' = <<>>
          /\ failed_builds' = failed_builds \cup {<<p_idx, repeat_idx>>}
          /\ pc' = "append"
          /\ UNCHANGED exc
       \/ /\ build_outcome' = "none"
          /\ pc' = "building"
          /\ UNCHANGED <<exc, result, failed_builds>>
    /\ UNCHANGED <<consts_file, original_content, p_idx, repeat_idx, results,
                   pm_vars, lifetime, saved, restore_count, attempted,
                   file_at_start, last_call>>

\* Lines 294-308 and 262-271: cargo build returns 0 (the stale logs are
\* removed and the ProcessManager is created), returns non-zero
\* (run_single_test returns None), or runs into timeout=120
\* (subprocess.run raises TimeoutExpired, which nothing in the run catches).
Build ==
    /\ pc = "build"
    /\ \/ /\ build_outcome' = "ok"
          /\ pc' = "launch"
          /\ UNCHANGED <<exc, result, failed_builds>>
       \/ /\ build_outcome' = "failed"
          /\ result' = <<>>
          /\ failed_builds' = failed_builds \cup {<<p_idx, repeat_idx>>}
          /\ pc' = "append"
          /\ UNCHANGED exc
       \/ /\ build_outcome' = "timeout"
          /\ exc' = "TimeoutExpired"
          /\ pc' = "finally"
          /\ UNCHANGED <<result, failed_builds>>
    /\ UNCHANGED <<consts_file, original_content, p_idx, repeat_idx, results,
                   pm_vars, lifetime, saved, restore_count, attempted,
                   file_at_start, last_call>>

\* Lines 311-317 and 200-216: the next start_process call and the sleep after
\* it; after the fourth, line 328 reads start_wait. Popen raises OSError when
\* the command cannot be launched.
StartProcess ==
    /\ pc = "launch"
    /\ LET k == Cardinality(processes) + 1
           name == LaunchOrder[k]
       IN  \/ /\ processes' = processes \cup {name}
              /\ start_times' = [n \in DOMAIN start_times \cup {name} |->
                                    IF n = name THEN now ELSE start_times[n]]
              /\ now' = now + SleepAfterLaunch(k)
              /\ start_wait' = IF k = Len(LaunchOrder) THEN now ELSE start_wait
              /\ pc' = IF k = Len(LaunchOrder) THEN "poll" ELSE "launch"
              /\ UNCHANGED exc
           \/ /\ exc' = "OSError"
              /\ pc' = "finally"
              /\ UNCHANGED <<processes, start_times, now, start_wait>>
    /\ UNCHANGED <<consts_file, original_content, p_idx, repeat_idx, result,
                   results, build_outcome, end_times, terminated, lingering,
                   replaced, tx_completed, rx_completed, lifetime, saved,
                   hist_vars>>

\* Lines 330-350: one evaluation of the loop condition and, when it holds,
\* one iteration: every process not yet seen complete is polled, the exited
\* ones get their end time, and the loop breaks or sleeps.
PollIteration ==
    /\ pc = "poll"
    /\ IF now - start_wait < total_timeout
       THEN LET tx_new == {n \in tx_processes \ tx_completed : HasExited(n)}
                rx_new == {n \in rx_processes \ rx_completed : HasExited(n)}
                seen == tx_new \cup rx_new
            IN  /\ end_times' = [n \in DOMAIN end_times \cup seen |->
                                    IF n \in seen THEN now ELSE end_times[n]]
                /\ tx_completed' = tx_completed \cup tx_new
                /\ rx_completed' = rx_completed \cup rx_new
                /\ IF LoopExit(tx_completed', rx_completed')
                   THEN pc' = "terminate" /\ now' = now
                   ELSE pc' = "poll" /\ now' = now + PollSleep
       ELSE /\ pc' = "terminate"
            /\ UNCHANGED <<end_times, tx_completed, rx_completed, now>>
    /\ UNCHANGED <<exc, consts_file, original_content, p_idx, repeat_idx,
                   result, results, build_outcome, processes, start_times,
                   terminated, lingering, replaced, start_wait, lifetime,
                   saved, hist_vars>>

\* terminate_all() recording an end time for the processes it signals.
TerminateStragglers_records_end ==
    /\ pc = "terminate"
    /\ IF NeedsTerminate
       THEN \E S \in SUBSET processes :
                LET out == terminate_all(S)
                IN  /\ S \subseteq out.signalled
                    /\ terminated' = terminated \cup out.signalled
                    /\ \E L \in SUBSET S :
                           lingering' = (lingering \ out.signalled) \cup L
                    /\ now' = out.clock
                    /\ end_times' =
                          [n \in DOMAIN end_times \cup out.signalled |->
                              IF n \in out.signalled THEN out.clock
                              ELSE end_times[n]]
       ELSE UNCHANGED <<terminated, lingering, now, end_times>>
    /\ pc' = "collect"
    /\ UNCHANGED <<exc, consts_file, original_content, p_idx, repeat_idx,
                   result, results, build_outcome, processes, start_times,
                   replaced, tx_completed, rx_completed, start_wait,
                   lifetime, saved, hist_vars>>

\* Lines 352-355: terminate_all() when a side is not complete. A process
\* sent kill() is not waited for: it may be gone when terminate_all() returns
\* or not yet.
TerminateStragglers ==
    /\ pc = "terminate"
    /\ IF NeedsTerminate
       THEN \E S \in SUBSET processes :
                LET out == terminate_all(S)
                IN  /\ S \subseteq out.signalled
                    /\ terminated' = terminated \cup out.signalled
                    /\ \E L \in SUBSET S :
                           lingering' = (lingering \ out.signalled) \cup L
                    /\ now' = out.clock
       ELSE UNCHANGED <<terminated, lingering, now>>
    /\ pc' = "collect"
    /\ UNCHANGED <<exc, consts_file, original_content, p_idx, repeat_idx,
                   result, results, build_outcome, processes, start_times,
                   end_times, replaced, tx_completed, rx_completed, start_wait,
                   lifetime, saved, hist_vars>>

\* A process that was sent kill() goes.
KilledProcessGoes ==
    /\ \E name \in lingering : lingering' = lingering \ {name}
    /\ last_call' = NoCall
    /\ UNCHANGED <<pc, exc, consts_file, original_content, p_idx, repeat_idx,
                   result, results, build_outcome, processes, start_times,
                   end_times, terminated, replaced, tx_completed, rx_completed,
                   start_wait, now, lifetime, saved, restore_count, attempted,
                   failed_builds, file_at_start>>

\* Lines 357-388: the durations, their maximum and the TestResult returned.
Collect ==
    /\ pc = "collect"
    /\ result' = <<MakeResult(param_combinations[p_idx], repeat_idx)>>
    /\ pc' = "append"
    /\ UNCHANGED <<exc, consts_file, original_content, p_idx, repeat_idx,
                   results, build_outcome, pm_vars, lifetime, saved, hist_vars>>

\* The append replaced by an assignment of the one new TestResult.
AfterRun_replaces ==
    /\ pc = "append"
    /\ results' = IF result # <<>> THEN <<result[1]>> ELSE results
    /\ IF <<p_idx, repeat_idx>> = LastRun
       THEN pc' = "finally" /\ UNCHANGED <<p_idx, repeat_idx>>
       ELSE /\ pc' = "update"
            /\ p_idx' = IF repeat_idx = Repeats - 1 THEN p_idx + 1 ELSE p_idx
            /\ repeat_idx' = IF repeat_idx = Repeats - 1 THEN 0
                             ELSE repeat_idx + 1
    /\ UNCHANGED <<exc, consts_file, original_content, result, build_outcome,
                   pm_vars, lifetime, saved, hist_vars>>

\* Lines 403-408: `if result: self.results.append(result)`, the sleep, and the
\* loops' step to the next run or out of the try block.
AfterRun_stops_on_none ==
    /\ pc = "append"
    /\ results' = IF result # <<>> THEN Append(results, result[1]) ELSE results
    /\ IF <<p_idx, repeat_idx>> = LastRun \/ result = <<>>
       THEN pc' = "finally" /\ UNCHANGED <<p_idx, repeat_idx>>
       ELSE /\ pc' = "update"
            /\ p_idx' = IF repeat_idx = Repeats - 1 THEN p_idx + 1 ELSE p_idx
            /\ repeat_idx' = IF repeat_idx = Repeats - 1 THEN 0
                             ELSE repeat_idx + 1
    /\ UNCHANGED <<exc, consts_file, original_content, result, build_outcome,
                   pm_vars, lifetime, saved, hist_vars>>

AfterRun ==
    /\ pc = "append"
    /\ results' = IF result # <<>> THEN Append(results, result[1]) ELSE results
    /\ IF <<p_idx, repeat_idx>> = LastRun
       THEN pc' = "finally" /\ UNCHANGED <<p_idx, repeat_idx>>
       ELSE /\ pc' = "update"
            /\ p_idx' = IF repeat_idx = Repeats - 1 THEN p_idx + 1 ELSE p_idx
            /\ repeat_idx' = IF repeat_idx = Repeats - 1 THEN 0
                             ELSE repeat_idx + 1
    /\ UNCHANGED <<exc, consts_file, original_content, result, build_outcome,
                   pm_vars, lifetime, saved, hist_vars>>

\* KeyboardInterrupt, raised while the controller waits: in the build, in the
\* sleep of the poll loop, in the sleep between runs.
Interrupt ==
    /\ pc \in {"build", "poll", "append"}
    /\ exc' = "KeyboardInterrupt"
    /\ pc' = "finally"
    /\ UNCHANGED <<consts_file, original_content, p_idx, repeat_idx, result,
                   results, build_outcome, pm_vars, lifetime, saved, hist_vars>>

\* Lines 409-412: the finally block; an exception in flight then leaves
\* run_all_experiments.
Finally_on_success ==
    /\ pc = "finally"
    /\ consts_file' = IF exc = "none" THEN restore(consts_file, original_content)
                      ELSE consts_file
    /\ restore_count' = IF exc = "none" THEN restore_count + 1 ELSE restore_count
    /\ pc' = IF exc = "none" THEN "save" ELSE "raised"
    /\ UNCHANGED <<exc, original_content, p_idx, repeat_idx, result, results,
                   build_outcome, pm_vars, lifetime, saved, attempted,
                   failed_builds, file_at_start, last_call>>

\* The finally block followed by save_results whatever happened.
Finally_then_save ==
    /\ pc = "finally"
    /\ consts_file' = restore(consts_file, original_content)
    /\ restore_count' = restore_count + 1
    /\ pc' = "save"
    /\ UNCHANGED <<exc, original_content, p_idx, repeat_idx, result, results,
                   build_outcome, pm_vars, lifetime, saved, attempted,
                   failed_builds, file_at_start, last_call>>

Finally ==
    /\ pc = "finally"
    /\ consts_file' = restore(consts_file, original_content)
    /\ restore_count' = restore_count + 1
    /\ pc' = IF exc = "none" THEN "save" ELSE "raised"
    /\ UNCHANGED <<exc, original_content, p_idx, repeat_idx, result, results,
                   build_outcome, pm_vars, lifetime, saved, attempted,
                   failed_builds, file_at_start, last_call>>

\* save_results() with the last TestResult left out of the document.
SaveResults_drops_last ==
    /\ pc = "save"
    /\ saved' = Append(saved, IF results = <<>> THEN results
                              ELSE SubSeq(results, 1, Len(results) - 1))
    /\ pc' = "done"
    /\ UNCHANGED <<exc, consts_file, original_content, p_idx, repeat_idx,
                   result, results, build_outcome, pm_vars, lifetime,
                   hist_vars>>

\* Lines 414-436: save_results() writes the results document; the session
\* returns.
SaveResults ==
    /\ pc = "save"
    /\ saved' = Append(saved, results)
    /\ pc' = "done"
    /\ UNCHANGED <<exc, consts_file, original_content, p_idx, repeat_idx,
                   result, results, build_outcome, pm_vars, lifetime,
                   hist_vars>>

Next ==
    \/ ReadOriginal
    \/ UpdateParams
    \/ Build
    \/ StartProcess
    \/ PollIteration
    \/ TerminateStragglers
    \/ KilledProcessGoes
    \/ Collect
    \/ AfterRun
    \/ Interrupt
    \/ Finally
    \/ SaveResults

\* A whole session, from construction.
Spec == Init /\ [][Next]_vars

\* The steps of the controller in the run loop: those of NextRun that are
\* not taken by the environment (a KeyboardInterrupt, the exit of a killed
\* process).
Controller ==
    \/ UpdateParams
    \/ Build
    \/ StartProcess
    \/ PollIteration
    \/ TerminateStragglers
    \/ Collect
    \/ AfterRun
    \/ Finally
    \/ SaveResults

\* The steps of a session that has entered its run loop.
NextRun ==
    \/ UpdateParams
    \/ Build
    \/ StartProcess
    \/ PollIteration
    \/ TerminateStragglers
    \/ KilledProcessGoes
    \/ Collect
    \/ AfterRun
    \/ Interrupt
    \/ Finally
    \/ SaveResults

\* The last repeat of a session, against every subject.
SpecRun == InitRun /\ [][NextRun]_vars

\* The subjects of FairRun: each process exits right after its launch, exits
\* while the poll loop runs, or never exits.
InitFair ==
    InitRun /\ \A name \in Roles : lifetime[name] \in {0, 1, total_timeout}

\* The last repeat of a session whose controller keeps running: the
\* interpreter goes on to the next statement, and every sleep and every wait
\* with a timeout returns.
FairRun == InitFair /\ [][NextRun]_vars /\ WF_vars(Controller)

(***************************************************************************)
(* ConstModifier by itself: read_original(), then any sequence of          *)
(* update_params and restore calls                                         *)
(***************************************************************************)
\* The longest configuration file a ConstModifier under test is given.
MaxLines == 2

\* The lines of those files.
Lines ==
    { OtherText(1), PubConst("SAMPLE_RATE", 48000), PubConst("CW_MIN", 16),
      Comment("CW_MIN", 32), PubConst("MAX_FRAME_DATA_SIZE", 256) }

\* The files: up to MaxLines lines, with "\n" or with "\r\n" line endings.
CMFiles ==
    LET lf == UNION {[1 .. n -> Lines] : n \in 0 .. MaxLines}
    IN  lf \cup {WithCRLF(f) : f \in lf}

\* The parameter sets update_params is called with: those of the enumeration
\* and one that names a single constant.
CMParams ==
    {param_combinations[i] : i \in DOMAIN param_combinations}
        \cup {[name |-> "cw_min only", CW_MIN |-> 50]}

\* A ConstModifier after construction (lines 153-155), over any file.
InitCM ==
    /\ pc = "cm_init"
    /\ exc = "none"
    /\ consts_file \in CMFiles
    /\ original_content = <<>>
    /\ p_idx = 0
    /\ repeat_idx = 0
    /\ result = <<>>
    /\ results = <<>>
    /\ build_outcome = "none"
    /\ processes = {}
    /\ start_times = EmptyMap
    /\ end_times = EmptyMap
    /\ terminated = {}
    /\ lingering = {}
    /\ replaced = {}
    /\ tx_completed = {}
    /\ rx_completed = {}
    /\ start_wait = 0
    /\ now = 0
    /\ lifetime = [name \in Roles |-> 0]
    /\ saved = <<>>
    /\ restore_count = 0
    /\ attempted = {}
    /\ failed_builds = {}
    /\ file_at_start = consts_file
    /\ last_call = NoCall

\* What a call on a ConstModifier leaves alone.
not_cm_vars == <<exc, p_idx, repeat_idx, result, results, build_outcome,
                 pm_vars, lifetime, saved, restore_count, attempted,
                 failed_builds, file_at_start>>

\* modifier.read_original() (lines 157-159).
CallReadOriginal ==
    /\ pc = "cm_init"
    /\ original_content' = read_original(consts_file)
    /\ last_call' = [op |-> "read_original"]
    /\ pc' = "cm"
    /\ UNCHANGED <<consts_file, not_cm_vars>>

\* modifier.update_params(params) patching the captured original.
CallUpdateParams_from_original(params) ==
    /\ pc = "cm"
    /\ consts_file' = update_params(write_text(original_content[1]), params)
    /\ last_call' = [op |-> "update_params", params |-> params]
    /\ UNCHANGED <<pc, original_content, not_cm_vars>>

\* modifier.update_params(params) (lines 166-188).
CallUpdateParams(params) ==
    /\ pc = "cm"
    /\ consts_file' = update_params(consts_file, params)
    /\ last_call' = [op |-> "update_params", params |-> params]
    /\ UNCHANGED <<pc, original_content, not_cm_vars>>

\* modifier.restore() (lines 161-164).
CallRestore ==
    /\ pc = "cm"
    /\ consts_file' = restore(consts_file, original_content)
    /\ last_call' = [op |-> "restore", after |-> last_call.op,
                     before |-> consts_file]
    /\ UNCHANGED <<pc, original_content, not_cm_vars>>

NextCM ==
    \/ CallReadOriginal
    \/ \E params \in CMParams : CallUpdateParams(params)
    \/ CallRestore

\* A ConstModifier under read_original() and any sequence of calls after it.
SpecCM == InitCM /\ [][NextCM]_vars

(***************************************************************************)
(* ProcessManager by itself: any sequence of calls of its methods          *)
(***************************************************************************)
\* The latest clock reading of a ProcessManager under test.
PMClock == 2

\* The longest timeout passed to wait_for_process.
MaxWait == 1

\* How many overwritten entries of pm.processes are kept track of.
MaxReplaced == 1

\* The names a ProcessManager under test is called with: two names that get
\* started, in the order of LaunchOrder, and one that never is.
PMNames == {LaunchOrder[1], LaunchOrder[2]}

NeverStarted == LaunchOrder[3]

\* The lifetimes of the processes a ProcessManager under test starts.
PMLifetimes == {0, 2}

\* The timeouts of wait_for_process: <<>> is None, <<t>> is t.
Timeouts == {<<>>} \cup {<<t>> : t \in 0 .. MaxWait}

\* What a session leaves alone belongs to the ExperimentRunner.
runner_vars == <<exc, consts_file, original_content, p_idx, repeat_idx, result,
                 results, build_outcome, tx_completed, rx_completed,
                 start_wait, saved, restore_count, attempted, failed_builds,
                 file_at_start>>

\* A ProcessManager after construction (lines 194-198), against any subject.
InitPM ==
    /\ pc = "pm"
    /\ exc = "none"
    /\ consts_file = TypicalFile
    /\ original_content = <<>>
    /\ p_idx = 0
    /\ repeat_idx = 0
    /\ result = <<>>
    /\ results = <<>>
    /\ build_outcome = "none"
    /\ processes = {}
    /\ start_times = EmptyMap
    /\ end_times = EmptyMap
    /\ terminated = {}
    /\ lingering = {}
    /\ replaced = {}
    /\ tx_completed = {}
    /\ rx_completed = {}
    /\ start_wait = 0
    /\ now = 0
    /\ lifetime \in {f \in [Roles -> PMLifetimes] :
                        \A name \in Roles \ PMNames : f[name] = 0}
    /\ saved = <<>>
    /\ restore_count = 0
    /\ attempted = {}
    /\ failed_builds = {}
    /\ file_at_start = TypicalFile
    /\ last_call = NoCall

\* ProcessManager.start_process (lines 200-216). A new name is the next of
\* LaunchOrder (the names are labels; pm.processes keeps the order of first
\* insertion); a name already started gets its entry and start time
\* overwritten, and the process of the old entry, when still running, is no
\* longer in pm.processes.
start_process(name) ==
    /\ pc = "pm"
    /\ IF name \in processes
       THEN /\ IF ~HasExited(name) /\ name \notin terminated
               THEN /\ Cardinality(replaced) < MaxReplaced
                    /\ replaced' = replaced \cup {<<name, start_times[name]>>}
               ELSE UNCHANGED replaced
            /\ UNCHANGED processes
       ELSE /\ name = LaunchOrder[Cardinality(processes) + 1]
            /\ processes' = processes \cup {name}
            /\ UNCHANGED replaced
    /\ start_times' = [n \in DOMAIN start_times \cup {name} |->
                          IF n = name THEN now ELSE start_times[n]]
    /\ terminated' = terminated \ {name}
    /\ lingering' = lingering \ {name}
    /\ last_call' = [op |-> "start_process", name |-> name]
    /\ UNCHANGED <<pc, runner_vars, end_times, now, lifetime>>

\* What wait_for_process returns when the process was (line 226) or was not
\* (lines 221, 228) waited for successfully.
wait_returns_true(exited) == TRUE

wait_returns(exited) == exited

\* ProcessManager.wait_for_process (lines 218-228): Popen.wait returns when
\* the process has exited, at once when it already has; with a timeout it
\* raises TimeoutExpired when the process is still running at the deadline;
\* without one it returns only when the process exits.
wait_for_process(name, timeout) ==
    /\ pc = "pm"
    /\ IF name \notin processes
       THEN /\ last_call' = [op |-> "wait_for_process", name |-> name,
                             timeout |-> timeout,
                                    value |-> wait_returns(FALSE)]
            /\ UNCHANGED <<end_times, now, lingering>>
       ELSE LET exits == \/ name \in terminated
                         \/ lifetime[name] > 0
                exit_time == IF name \in terminated THEN now
                             ELSE Max2(now, start_times[name] + lifetime[name])
                in_time == /\ exits
                           /\ IF timeout = <<>> THEN TRUE
                              ELSE exit_time <= now + timeout[1]
            IN  \/ /\ in_time
                   /\ now' = exit_time
                   /\ end_times' = [n \in DOMAIN end_times \cup {name} |->
                                       IF n = name THEN exit_time
                                       ELSE end_times[n]]
                   /\ lingering' = lingering \ {name}
                   /\ last_call' = [op |-> "wait_for_process", name |-> name,
                                    timeout |-> timeout,
                                    value |-> wait_returns(TRUE)]
                \/ /\ timeout # <<>>
                   /\ ~in_time \/ name \in lingering
                   /\ now' = now + timeout[1]
                   /\ last_call' = [op |-> "wait_for_process", name |-> name,
                                    timeout |-> timeout,
                                    value |-> wait_returns(FALSE)]
                   /\ UNCHANGED <<end_times, lingering>>
    /\ now' <= PMClock
    /\ UNCHANGED <<pc, runner_vars, processes, start_times, terminated,
                   replaced, lifetime>>

\* ProcessManager.terminate_all (lines 236-245), called directly.
TerminateAll ==
    /\ pc = "pm"
    /\ \E S \in SUBSET processes :
          LET out == terminate_all(S)
          IN  /\ S \subseteq out.signalled
              /\ terminated' = terminated \cup out.signalled
              /\ \E L \in SUBSET S :
                     lingering' = (lingering \ out.signalled) \cup L
              /\ now' = out.clock
    /\ now <= PMClock
    /\ last_call' = [op |-> "terminate_all"]
    /\ UNCHANGED <<pc, runner_vars, processes, start_times, end_times,
                   replaced, lifetime>>

\* ProcessManager.get_duration (lines 230-234), called directly.
CallGetDuration(name) ==
    /\ pc = "pm"
    /\ last_call' = [op |-> "get_duration", name |-> name,
                     value |-> get_duration(name)]
    /\ UNCHANGED <<pc, runner_vars, processes, start_times, end_times,
                   terminated, lingering, replaced, now, lifetime>>

\* Time passes between two calls.
Sleep ==
    /\ pc = "pm"
    /\ now < PMClock
    /\ now' = now + 1
    /\ last_call' = NoCall
    /\ UNCHANGED <<pc, runner_vars, processes, start_times, end_times,
                   terminated, lingering, replaced, lifetime>>

NextPM ==
    \/ \E name \in PMNames : start_process(name)
    \/ \E name \in PMNames \cup {NeverStarted}, timeout \in Timeouts :
          wait_for_process(name, timeout)
    \/ TerminateAll
    \/ \E name \in PMNames \cup {NeverStarted} : CallGetDuration(name)
    \/ KilledProcessGoes
    \/ Sleep

\* A ProcessManager under any sequence of calls.
SpecPM == InitPM /\ [][NextPM]_vars

(***************************************************************************)
(* The claims                                                              *)
(***************************************************************************)
\* The controller is past the finally block of run_all_experiments.
PastFinally == pc \in {"save", "done", "raised"}

\* The run after run <<p, r>> in the order of the loops.
RunAfter(p, r) == IF r = Repeats - 1 THEN <<p + 1, 0>> ELSE <<p, r + 1>>

SetMax(S) == CHOOSE m \in S : \A x \in S : x <= m

Durations(r) == {r.tx1_time, r.tx2_time, r.rx1_time, r.rx2_time}

\* The line endings of the file are those the host writes.
NativeEol(bytes) == \A i \in DOMAIN bytes : bytes[i].eol = os_linesep

\* C1: once run_all_experiments is past its finally block (it returns or an
\* exception leaves it), consts.rs reads as the content read_original captured
\* at session start, whatever runs succeeded, failed to build, timed out or
\* raised; a file whose line endings are the host's is the same on disk as
\* when the session began.
C1_RestorationInvariant ==
    PastFinally =>
        /\ original_content = read_original(file_at_start)
        /\ read_text(consts_file) = original_content[1]
        /\ NativeEol(file_at_start) => consts_file = file_at_start

\* C1 witness: a session that appended a result, skipped a failed build and
\* was left by an exception, over a file the patch changes.
C1_Witness ==
    /\ pc = "raised"
    /\ results # <<>>
    /\ failed_builds # {}
    /\ original_content # <<>>
    /\ read_text(consts_file) = original_content[1]
    /\ consts_file = file_at_start
    /\ update_params(consts_file, param_combinations[p_idx]) # consts_file

\* C2 as stated, for the sessions in which no build timed out: restore() runs
\* exactly once, and when it has run every parameter set and repeat has been
\* attempted, also when an exception left a run.
C2_RestoreAfterAllRuns ==
    exc # "TimeoutExpired" =>
        /\ restore_count <= 1
        /\ PastFinally => restore_count = 1
        /\ restore_count >= 1 => attempted = AllRuns

\* C2 amended: restore() runs exactly once, in the finally block that ends the
\* run loop: after every parameter set and repeat has been attempted when no
\* exception was raised, and right after the raising step otherwise, the
\* remaining runs not being attempted.
C2_RestoreExactlyOnce ==
    /\ restore_count <= 1
    /\ PastFinally <=> restore_count = 1
    /\ (restore_count = 1 /\ exc = "none") => attempted = AllRuns
    /\ (restore_count = 1 /\ attempted # AllRuns) => (exc # "none" /\ pc = "raised")

\* C2 witness: a spawn failure left the session before its last run, and
\* restore() has run once.
C2_Witness ==
    /\ pc = "raised"
    /\ exc = "OSError"
    /\ restore_count = 1
    /\ attempted # AllRuns
    /\ results # <<>>

\* C3: the step in which the build returns non-zero launches nothing and
\* makes the run return None; the step after it appends nothing, restores
\* nothing and goes on to the next repeat, or to the next parameter set after
\* repeat 4 (after the last run of the session the loops end).
C3_BuildFailureSkipsRun ==
    /\ [][(pc = "build" /\ build_outcome' = "failed") =>
            /\ pc' = "append"
            /\ exc' = "none"
            /\ result' = <<>>
            /\ processes' = {}
            /\ UNCHANGED <<results, consts_file, restore_count>>]_vars
    /\ [][(pc = "append" /\ build_outcome = "failed" /\ exc' = "none") =>
            /\ processes' = {}
            /\ UNCHANGED <<results, consts_file, restore_count>>
            /\ IF <<p_idx, repeat_idx>> = LastRun
               THEN pc' = "finally"
               ELSE /\ pc' = "update"
                    /\ <<p_idx', repeat_idx'>> = RunAfter(p_idx, repeat_idx)]_vars

\* C3 witness: the build of repeat 4 of the first parameter set failed and the
\* session stands at the first repeat of the second parameter set.
C3_Witness ==
    /\ pc = "update"
    /\ <<p_idx, repeat_idx>> = <<2, 0>>
    /\ build_outcome = "failed"
    /\ <<1, Repeats - 1>> \in failed_builds
    /\ restore_count = 0
    /\ exc = "none"

\* C4 as stated: a build that runs into its timeout is treated like a failed
\* build: the run returns None, no exception is in flight and the session goes
\* on.
C4_BuildTimeoutSkipsRun ==
    build_outcome = "timeout" =>
        /\ exc = "none"
        /\ pc = "append"
        /\ result = <<>>

\* C5: the processes are started in the order rx2, rx1, tx2, tx1 with the
\* sleeps of the code between consecutive launches, and nothing is polled
\* before all four are started.
C5_LaunchOrder ==
    /\ "rx1" \in processes =>
          /\ "rx2" \in processes
          /\ start_times["rx1"] - start_times["rx2"] >= SleepRx
    /\ "tx2" \in processes =>
          /\ "rx1" \in processes
          /\ start_times["tx2"] - start_times["rx1"] >= SleepRx
    /\ "tx1" \in processes =>
          /\ "tx2" \in processes
          /\ start_times["tx1"] - start_times["tx2"] >= SleepTx
    /\ DOMAIN start_times = processes
    /\ (pc \in {"poll", "terminate", "collect"} \/ DOMAIN end_times # {}) =>
          /\ processes = Roles
          /\ start_wait >= start_times["tx1"]

\* C5 witness: the poll loop is about to make its first iteration.
C5_Witness ==
    /\ pc = "poll"
    /\ processes = Roles
    /\ now = start_wait
    /\ DOMAIN end_times = {}

ScenarioB(tx) ==
    /\ lifetime[tx] = 0
    /\ \A rx \in rx_processes :
          /\ lifetime[rx] > 0
          /\ start_times[rx] + lifetime[rx] < start_wait + total_timeout

\* The first poll at which both receivers have exited.
RxSeenAt ==
    Max2(start_wait, Max2(start_times["rx1"] + lifetime["rx1"],
                          start_times["rx2"] + lifetime["rx2"]))

ScenarioA == \A n \in Roles : lifetime[n] \in 1 .. FiveSeconds

\* C8 as stated: the TestResult of a Scenario A run has four durations that
\* are not the sentinel, positive and at most total_timeout, their maximum as
\* max_time, and a repeat index in 1..4.
C8_ScenarioA ==
    (pc = "append" /\ result # <<>> /\ processes = Roles /\ ScenarioA) =>
        LET r == result[1]
        IN  /\ \A d \in Durations(r) :
                  d # Sentinel /\ d > 0 /\ d <= total_timeout
            /\ r.max_time = SetMax(Durations(r))
            /\ r.repeat \in 1 .. Repeats

\* C9: in every TestResult of the results, max_time is the maximum of the
\* durations that are not the sentinel, and the sentinel exactly when all
\* four are.
C9_ResultArithmetic ==
    \A i \in DOMAIN results :
        LET r == results[i]
            done == {d \in Durations(r) : d # Sentinel}
        IN  /\ done # {} => r.max_time = SetMax(done)
            /\ r.max_time = Sentinel <=> done = {}

\* C9 witness: a TestResult with a sentinel duration beside two different
\* durations of completed processes.
C9_Witness ==
    \E i \in DOMAIN results :
        /\ results[i].tx1_time = Sentinel
        /\ results[i].rx1_time > 0
        /\ results[i].rx2_time > results[i].rx1_time
        /\ results[i].max_time = results[i].rx2_time

\* The loops are done with parameter set p and no exception ended it.
FinishedSet(p) ==
    \/ p_idx > p
    \/ p_idx = p /\ exc = "none" /\ pc \in {"finally", "save", "done"}

ResultsOf(p) ==
    SelectSeq(results, LAMBDA r : r.config_name = param_combinations[p].name)

\* C10: a parameter set that the loops are done with and none of whose builds
\* failed has exactly 4 TestResults, with the repeat indices 1, 2, 3, 4.
C10_RepeatCardinality ==
    \A p \in 1 .. Len(param_combinations) :
        (FinishedSet(p) /\ \A r \in 0 .. Repeats - 1 : <<p, r>> \notin failed_builds) =>
            /\ Len(ResultsOf(p)) = Repeats
            /\ \A k \in 1 .. Repeats : ResultsOf(p)[k].repeat = k

\* C10 witness: a session that returned with no failed build, in whose runs
\* every process was terminated at the timeout.
C10_Witness ==
    /\ pc = "done"
    /\ failed_builds = {}
    /\ Len(results) = Repeats * Len(param_combinations)
    /\ \A i \in DOMAIN results : results[i].max_time = Sentinel
    /\ terminated = Roles

\* The processes started by the ProcessManager that are running: those of
\* pm.processes and those whose entry was overwritten.
Alive ==
    {name \in processes : ~HasExited(name)}
        \cup {r[1] : r \in {q \in replaced :
                               \/ lifetime[q[1]] = 0
                               \/ now < q[2] + lifetime[q[1]]}}

\* C11 as stated: where a run collects its durations, every process without
\* an end time has been forcibly terminated and none of the four processes is
\* still running; terminate_all() has acted only when not all four were seen
\* complete at loop exit.
C11_TerminateStragglers ==
    pc = "collect" =>
        /\ \A name \in Roles :
              /\ name \notin DOMAIN end_times => name \in terminated
              /\ HasExited(name)
        /\ terminated # {} => tx_completed \cup rx_completed # Roles

\* C12 as stated: when terminate_all() has returned, no process started by
\* the ProcessManager is alive.
C12_TerminationCompleteness ==
    last_call.op = "terminate_all" => Alive = {}

\* C20: a step of wait_for_process(name, timeout). For a name never started
\* it returns False and changes no bookkeeping. For a started one it returns
\* True only when the process has exited, within the timeout, and then the
\* end time of that name is the clock on return; it returns False only at the
\* deadline of a timeout, with no end time recorded; and it returns True for
\* every process that exits by itself before the deadline.
C20_WaitForProcess ==
    [][(pc = "pm" /\ last_call'.op = "wait_for_process") =>
        LET name == last_call'.name
            timeout == last_call'.timeout
            value == last_call'.value
        IN  /\ name \notin processes =>
                  /\ value = FALSE
                  /\ UNCHANGED <<processes, start_times, end_times, now>>
            /\ (name \in processes /\ value = TRUE) =>
                  /\ HasExitedAt(name, now')
                  /\ timeout # <<>> => now' <= now + timeout[1]
                  /\ name \in DOMAIN end_times'
                  /\ end_times'[name] = now'
                  /\ \A n \in DOMAIN end_times : end_times'[n] = end_times[n]
                                                   \/ n = name
            /\ (name \in processes /\ value = FALSE) =>
                  /\ timeout # <<>>
                  /\ now' = now + timeout[1]
                  /\ end_times' = end_times
            /\ (/\ name \in processes
                /\ timeout # <<>>
                /\ lifetime[name] > 0
                /\ start_times[name] + lifetime[name] <= now + timeout[1]) =>
                  value = TRUE
            /\ UNCHANGED <<processes, start_times>>]_vars

\* C20 witness: wait_for_process has just returned True for a process that
\* exited during the wait, before the deadline of its timeout.
C20_Witness ==
    /\ last_call.op = "wait_for_process"
    /\ last_call.value = TRUE
    /\ last_call.timeout # <<>>
    /\ last_call.name \in processes
    /\ end_times[last_call.name] = now
    /\ now = start_times[last_call.name] + lifetime[last_call.name]
    /\ now > start_times[last_call.name]

\* C13: a restore() step that comes right after an update_params step leaves
\* consts.rs reading as the content read_original captured, which is the
\* content of the file then; a file whose line endings are the host's is the
\* same on disk as it was.
C13_PatchRestoreRoundTrip ==
    [][(pc = "cm" /\ last_call.op = "update_params"
                 /\ last_call'.op = "restore") =>
            /\ original_content' = <<read_text(consts_file')>>
            /\ original_content' = <<read_text(file_at_start)>>
            /\ NativeEol(file_at_start) => consts_file' = file_at_start]_vars

\* C13 witness: restore() has just undone an update_params that had changed
\* the file.
C13_Witness ==
    /\ last_call.op = "restore"
    /\ last_call.after = "update_params"
    /\ last_call.before # consts_file
    /\ read_text(last_call.before) # original_content[1]
    /\ read_text(consts_file) = original_content[1]
    /\ consts_file = file_at_start

\* The constants parameter set params names, among those update_params
\* handles.
NamedIn(params) == {UpdateKeys[k] : k \in DOMAIN UpdateKeys} \cap DOMAIN params

\* C14 as stated: an update_params(P) step changes nothing but the integer
\* literal of the declarations of the constants P names: every other line,
\* comments included, and the name, the form and the line ending of every
\* line are the same after the step as before it.
C14_UpdateFrame ==
    [][(pc = "cm" /\ last_call'.op = "update_params") =>
            /\ Len(consts_file') = Len(consts_file)
            /\ \A i \in DOMAIN consts_file :
                  IF /\ consts_file[i].kind = "pub_const"
                     /\ consts_file[i].name \in NamedIn(last_call'.params)
                  THEN consts_file'[i] =
                           [consts_file[i] EXCEPT
                               !.value = consts_file'[i].value]
                  ELSE consts_file'[i] = consts_file[i]]_vars

\* Parameter set params names a constant that consts.rs does not declare.
NamesAbsent(params, content) ==
    \E key \in NamedIn(params) :
        \A i \in DOMAIN content : content[i].name # key

\* C15: an update_params(P) step with a P that names a constant the file does
\* not declare returns normally, brings no line of that name into the file,
\* keeps the number of lines, and leaves every declaration of a constant
\* that P names and the file declares with the value of P.
C15_ScenarioC ==
    [][(/\ pc = "cm"
        /\ last_call'.op = "update_params"
        /\ NamesAbsent(last_call'.params, consts_file)) =>
            LET params == last_call'.params
            IN  /\ pc' = "cm"
                /\ exc' = "none"
                /\ Len(consts_file') = Len(consts_file)
                /\ \A i \in DOMAIN consts_file :
                      /\ consts_file'[i].name = consts_file[i].name
                      /\ consts_file'[i].kind = consts_file[i].kind
                      /\ (/\ consts_file[i].kind = "pub_const"
                          /\ consts_file[i].name \in NamedIn(params)) =>
                             consts_file'[i].value =
                                 params[consts_file[i].name]
                      /\ consts_file[i].name \notin NamedIn(params) =>
                             consts_file'[i].value = consts_file[i].value]_vars

\* C15 witness: update_params has just returned for a parameter set that
\* names constants the file does not declare and two it declares, whose
\* literals are now those of the parameter set.
C15_Witness ==
    /\ last_call.op = "update_params"
    /\ NamesAbsent(last_call.params, consts_file)
    /\ "MAX_FRAME_DATA_SIZE" \in NamedIn(last_call.params)
    /\ consts_file =
          << PubConst("CW_MIN", last_call.params.CW_MIN),
             PubConst("MAX_FRAME_DATA_SIZE",
                      last_call.params.MAX_FRAME_DATA_SIZE) >>
    /\ consts_file # file_at_start

\* C16: every restore() step after read_original(), whatever update_params
\* calls came before it, leaves consts.rs reading as the captured original
\* (the same on disk as at the start for a file whose line endings are the
\* host's), and a restore() step right after a restore() step changes
\* nothing.
C16_RestoreIdempotent ==
    [][(pc = "cm" /\ last_call'.op = "restore") =>
            /\ original_content' = <<read_text(consts_file')>>
            /\ NativeEol(file_at_start) => consts_file' = file_at_start
            /\ last_call.op = "restore" => consts_file' = consts_file]_vars

\* C16 witness: a second restore() in a row has just returned, the first
\* having undone an update_params.
C16_Witness ==
    /\ last_call.op = "restore"
    /\ last_call.after = "restore"
    /\ last_call.before = consts_file
    /\ original_content = <<read_text(consts_file)>>
    /\ \E params \in CMParams : update_params(consts_file, params) # consts_file

\* The poll loop of the run was left because the timeout elapsed: no side was
\* complete when it ended.
TimedOut ==
    /\ pc \in {"terminate", "collect", "append"}
    /\ processes = Roles
    /\ ~LoopExit(tx_completed, rx_completed)

\* The duration of a role in a TestResult.
DurationIn(r, name) ==
    CASE name = "tx1" -> r.tx1_time
      [] name = "tx2" -> r.tx2_time
      [] name = "rx1" -> r.rx1_time
      [] OTHER -> r.rx2_time

\* C17: a run whose poll loop ran into the timeout has no exception in
\* flight and returns a TestResult in which exactly the roles not seen
\* complete have the sentinel duration; the step after a run that returned a
\* TestResult appends exactly that one; and a run returns None only when its
\* build failed.
C17_TimeoutIsNotAnError ==
    /\ [](TimedOut =>
            /\ exc = "none"
            /\ pc = "append" =>
                  /\ result # <<>>
                  /\ \A name \in Roles :
                        DurationIn(result[1], name) = Sentinel
                            <=> name \notin tx_completed \cup rx_completed)
    /\ []((pc = "append" /\ result = <<>>) => build_outcome = "failed")
    /\ [][(pc = "append" /\ pc' # "append" /\ result # <<>>
                          /\ exc' = "none") =>
              results' = Append(results, result[1])]_vars

\* C17 witness: the result of a run that ran into the timeout with one
\* receiver seen complete has been appended.
C17_Witness ==
    /\ pc = "finally"
    /\ exc = "none"
    /\ processes = Roles
    /\ tx_completed = {}
    /\ rx_completed = {"rx1"}
    /\ Len(results) = 1
    /\ results[1].rx1_time > 0
    /\ results[1].rx2_time = Sentinel
    /\ results[1].tx1_time = Sentinel
    /\ results[1].tx2_time = Sentinel

\* The TestResults of run <<p, r>> in the results.
ResultsOfRun(p, r) ==
    SelectSeq(results, LAMBDA x : /\ x.config_name = param_combinations[p].name
                                  /\ x.repeat = RepeatOf(r))

\* C18: a spawn failure is raised by a start_process step and takes the
\* session to its finally block with nothing appended; while it is in flight
\* the run has no TestResult in the results and nothing is saved; and when
\* it has left run_all_experiments, restore() has run and consts.rs reads as
\* the captured original.
C18_SpawnFailure ==
    /\ [][(exc = "none" /\ exc' = "OSError") =>
              /\ pc = "launch"
              /\ pc' = "finally"
              /\ UNCHANGED <<results, result, saved>>]_vars
    /\ [](exc = "OSError" =>
              /\ pc \in {"finally", "raised"}
              /\ ResultsOfRun(p_idx, repeat_idx) = <<>>
              /\ saved = <<>>
              /\ pc = "raised" =>
                    /\ restore_count = 1
                    /\ original_content = <<read_text(consts_file)>>
                    /\ NativeEol(file_at_start) => consts_file = file_at_start)

\* C18 witness: the third start_process of a run failed after an earlier run
\* had appended its result; the error has left the session and the patched
\* file is restored.
C18_Witness ==
    /\ pc = "raised"
    /\ exc = "OSError"
    /\ processes = {"rx2", "rx1"}
    /\ results # <<>>
    /\ restore_count = 1
    /\ consts_file = file_at_start
    /\ update_params(consts_file, param_combinations[p_idx]) # consts_file

\* C19: every run that has begun ends, with its TestResult or None at the
\* append of line 406 or with an exception on the way to the finally block,
\* and every session reaches restore(), whatever the subject processes do.
C19_BoundedWaiting ==
    /\ (pc \in {"build", "launch", "poll", "terminate", "collect"})
           ~> (pc \in {"append", "finally"})
    /\ <>(restore_count = 1)

\* C19 witness: a session against processes that never exit and are not gone
\* when terminate_all() returns has run its last run to the timeout of the
\* poll loop and has called restore().
C19_Witness ==
    /\ restore_count = 1
    /\ exc = "none"
    /\ \A name \in Roles : lifetime[name] = 0
    /\ Len(results) = 1
    /\ terminated = Roles
    /\ lingering # {}

\* C21: a step of get_duration(name) returns the end time less the start
\* time when both are recorded for the name and the sentinel in every other
\* case, and changes nothing of the ProcessManager nor of the processes.
C21_GetDuration ==
    [][(pc = "pm" /\ last_call'.op = "get_duration") =>
        LET name == last_call'.name
        IN  /\ (name \in DOMAIN start_times /\ name \in DOMAIN end_times) =>
                  last_call'.value = end_times[name] - start_times[name]
            /\ (name \notin DOMAIN start_times \/ name \notin DOMAIN end_times)
                  => last_call'.value = Sentinel
            /\ UNCHANGED <<processes, start_times, end_times, terminated,
                           lingering, replaced, now>>]_vars

\* C21 witness: get_duration has just returned the sentinel for a process
\* that was forcibly terminated, beside a process whose duration is recorded
\* and positive.
C21_Witness ==
    /\ last_call.op = "get_duration"
    /\ last_call.name \in terminated
    /\ last_call.name \notin DOMAIN end_times
    /\ last_call.value = Sentinel
    /\ \E other \in processes :
          /\ other \in DOMAIN end_times
          /\ end_times[other] - start_times[other] > 0

\* C22 as stated: where a repeat begins (update_params is about to be called)
\* and once the session is left, normally or by an exception, no process
\* launched by a repeat is still running.
C22_NoProcessOutlivesItsRepeat ==
    (pc = "update" \/ PastFinally) => Alive = {}

\* C23: a session left without exception has attempted every run, has
\* restored the configuration once and before persisting, and persists the
\* results exactly once, the document holding every appended TestResult; a
\* session left by an exception has restored the configuration before the
\* exception leaves it, and persists nothing.
C23_ExitBehaviour ==
    /\ Len(saved) <= 1
    /\ pc = "save" =>
          /\ exc = "none"
          /\ attempted = AllRuns
          /\ restore_count = 1
          /\ read_text(consts_file) = read_text(file_at_start)
          /\ saved = <<>>
    /\ pc = "done" =>
          /\ exc = "none"
          /\ restore_count = 1
          /\ read_text(consts_file) = read_text(file_at_start)
          /\ saved = <<results>>
          /\ Len(results) = Cardinality(AllRuns \ failed_builds)
    /\ pc = "raised" =>
          /\ exc # "none"
          /\ restore_count = 1
          /\ read_text(consts_file) = read_text(file_at_start)
          /\ saved = <<>>
    /\ ~PastFinally => saved = <<>> /\ restore_count <= 1

\* C23 witness: a session has returned with its results persisted, one run
\* of which gave no result, and the configuration it had patched restored.
C23_Witness ==
    /\ pc = "done"
    /\ saved = <<results>>
    /\ failed_builds # {}
    /\ results # <<>>
    /\ restore_count = 1
    /\ update_params(file_at_start, param_combinations[NumParamSets])
          # file_at_start

\* The state of a role in the run, from the bookkeeping of the run: a role
\* whose end time is recorded is Completed, a role signalled by
\* terminate_all() is Terminated, a role still without end time once the
\* poll loop is left is TimedOut.
RoleStateOf(name, procs, ends, term, position) ==
    IF name \notin procs THEN "NotStarted"
    ELSE IF name \in DOMAIN ends THEN "Completed"
    ELSE IF name \in term THEN "Terminated"
    ELSE IF position \in {"terminate", "collect", "append"} THEN "TimedOut"
    ELSE "Running"

RoleState(name) == RoleStateOf(name, processes, end_times, terminated, pc)

RoleTransitions ==
    {<<"NotStarted", "Running">>, <<"Running", "Completed">>,
     <<"Running", "TimedOut">>, <<"TimedOut", "Terminated">>}

\* The steps of a run between its launch and its TestResult.
InRun == pc \in {"launch", "poll", "terminate", "collect"} /\ exc' = "none"

\* Every step of a run moves each role along the state machine or leaves it
\* where it is; a started role is not started again; an end time is recorded
\* only by an iteration of the poll loop that sees the exit, for the clock of
\* that iteration, and never by terminate_all().
RoleSteps ==
    InRun =>
        /\ \A name \in Roles :
              LET before == RoleState(name)
                  after == RoleStateOf(name, processes', end_times',
                                       terminated', pc')
              IN  /\ before = after \/ <<before, after>> \in RoleTransitions
                  /\ name \in processes =>
                        /\ name \in processes'
                        /\ start_times'[name] = start_times[name]
                  /\ name \in DOMAIN end_times =>
                        /\ name \in DOMAIN end_times'
                        /\ end_times'[name] = end_times[name]
                  /\ (name \notin DOMAIN end_times
                        /\ name \in DOMAIN end_times') =>
                        /\ pc = "poll"
                        /\ HasExited(name)
                        /\ name \notin terminated
                        /\ end_times'[name] = now
        /\ pc = "terminate" => end_times' = end_times

C25_OriginalCapturedOnce ==
    [][/\ original_content' # original_content =>
             /\ pc = "init"
             /\ original_content = <<>>
             /\ attempted = {}
             /\ consts_file = file_at_start
             /\ original_content' = <<read_text(file_at_start)>>
       /\ pc' # "init" => original_content' = <<read_text(file_at_start)>>]_vars

\* C25 witness: the second parameter set is under test, the file holds
\* patched content that differs from the original, and the captured content
\* is still that of the file at the start.
C25_Witness ==
    /\ pc = "poll"
    /\ p_idx = NumParamSets
    /\ read_text(consts_file) # read_text(file_at_start)
    /\ read_text(update_params(file_at_start, param_combinations[1]))
          # read_text(file_at_start)
    /\ original_content = <<read_text(file_at_start)>>

\* C26: every step of the session leaves the results list as it is or
\* appends one TestResult, that of the run just made, at its end; what the
\* list held stays, in place and unmodified.
C26_ResultsAppendOnly ==
    [][\/ results' = results
       \/ /\ pc = "append"
          /\ result # <<>>
          /\ Len(results') = Len(results) + 1
          /\ SubSeq(results', 1, Len(results)) = results
          /\ results'[Len(results')] = result[1]]_vars

\* C26 witness: a run has just appended its TestResult behind two earlier
\* ones.
C26_Witness ==
    /\ pc \in {"update", "finally"}
    /\ result # <<>>
    /\ Len(results) = 3
    /\ results[3] = result[1]
    /\ results[1] # results[3]

\* The position of a parameter set in the enumeration.
PositionOf(config_name) ==
    CHOOSE i \in DOMAIN param_combinations :
        param_combinations[i].name = config_name

\* C27: the results are in the order of (position of the parameter set,
\* repeat), strictly, so that no two share the pair; the repeat of a result
\* is the one-based index of the run that gave it, a run with a result, so
\* that repeats skipped by a failure are not renumbered.
C27_ResultsOrdered ==
    /\ \A i, j \in DOMAIN results :
          i < j =>
            LET pi == PositionOf(results[i].config_name)
                pj == PositionOf(results[j].config_name)
            IN  \/ pi < pj
                \/ pi = pj /\ results[i].repeat < results[j].repeat
    /\ \A i \in DOMAIN results :
          <<PositionOf(results[i].config_name), results[i].repeat - 1>>
              \in attempted \ failed_builds

\* C27 witness: the second repeat of the first parameter set failed to
\* build and its results carry the repeats 1, 3, 4.
C27_Witness ==
    /\ Len(results) >= 3
    /\ \A i \in 1 .. 3 : results[i].config_name = param_combinations[1].name
    /\ <<results[1].repeat, results[2].repeat, results[3].repeat>>
          = <<1, 3, 4>>
    /\ <<1, 1>> \in failed_builds

\* C28 as stated: no ProcessManager operation changes an end time once it
\* is recorded for a name.
C28_EndTimeWrittenOnce ==
    [][pc = "pm" =>
        \A name \in DOMAIN end_times :
            /\ name \in DOMAIN end_times'
            /\ end_times'[name] = end_times[name]]_vars

\* C29: an update_params(P) step works on the file as it is: after it every
\* declared constant that P names has P's value, whatever the file held, and
\* every declared constant that P does not name has the value the file held
\* just before the step, that of the latest patch, not that of the captured
\* original.
C29_PatchesCurrentContent ==
    [][(pc = "cm" /\ last_call'.op = "update_params") =>
        /\ Len(consts_file') = Len(consts_file)
        /\ \A i \in DOMAIN consts_file :
              consts_file[i].kind = "pub_const" =>
                  /\ consts_file'[i].kind = "pub_const"
                  /\ consts_file'[i].name = consts_file[i].name
                  /\ consts_file'[i].value =
                        IF consts_file[i].name \in NamedIn(last_call'.params)
                        THEN last_call'.params[consts_file[i].name]
                        ELSE consts_file[i].value]_vars

\* C29 witness: update_params has just been called with a set that names
\* one of two declared constants: that one has the set's value and the other
\* has a value patched earlier, which is not the one of the original.
C29_Witness ==
    /\ last_call.op = "update_params"
    /\ original_content # <<>>
    /\ Len(consts_file) = 2
    /\ \E i, j \in DOMAIN consts_file :
          /\ consts_file[i].kind = "pub_const"
          /\ consts_file[i].name \in NamedIn(last_call.params)
          /\ consts_file[i].value = last_call.params[consts_file[i].name]
          /\ consts_file[j].kind = "pub_const"
          /\ consts_file[j].name \notin NamedIn(last_call.params)
          /\ consts_file[j].name \in {UpdateKeys[k] : k \in DOMAIN UpdateKeys}
          /\ consts_file[j].value # original_content[1][j].value

\* Both durations of the transmitters, or both of the receivers, are not the
\* sentinel in a TestResult.
SideMeasured(r) ==
    \/ r.tx1_time # Sentinel /\ r.tx2_time # Sentinel
    \/ r.rx1_time # Sentinel /\ r.rx2_time # Sentinel

\* Both transmitters, or both receivers, have an end time recorded.
SideRecorded(ends) ==
    \/ tx_processes \subseteq DOMAIN ends
    \/ rx_processes \subseteq DOMAIN ends

\* C30: when the poll loop is left with neither side recorded complete, the
\* clock it read last was at or past the global timeout, and when it is left
\* earlier a side is recorded complete; the end times stay as the loop left
\* them until the durations are collected, and the TestResult has the
\* durations of a side without sentinel exactly when that side was recorded.
C30_SentinelsMeanTimeout ==
    /\ [][(pc = "poll" /\ pc' = "terminate") =>
            /\ ~SideRecorded(end_times') => now - start_wait >= total_timeout
            /\ now - start_wait < total_timeout => SideRecorded(end_times')
            /\ now' = now]_vars
    /\ [][(pc \in {"terminate", "collect"}) =>
            (end_times' = end_times /\ start_wait' = start_wait)]_vars
    /\ []((pc = "append" /\ result # <<>>) =>
            /\ SideMeasured(result[1]) <=> SideRecorded(end_times)
            /\ ~SideMeasured(result[1]) => now - start_wait >= total_timeout)

\* C30 witness: the TestResult of a run has one duration measured and the
\* sentinel for a transmitter and for a receiver, and the loop of the run
\* ended on the timeout.
C30_Witness ==
    /\ pc = "append"
    /\ result # <<>>
    /\ ~SideMeasured(result[1])
    /\ result[1].rx1_time > 0
    /\ result[1].rx2_time = Sentinel
    /\ result[1].tx1_time = Sentinel
    /\ now - start_wait >= total_timeout

\* C31: the results document is written only by save_results, reached
\* without an exception in flight; once an exception has left a run
\* (spawn failure, build timeout, interruption) nothing is ever written, and
\* the session that it ends leaves the results accumulated so far unsaved.
C31_SavedOnlyOnNormalExit ==
    /\ [](exc # "none" => saved = <<>>)
    /\ [][saved' # saved =>
             (pc = "save" /\ exc = "none" /\ exc' = "none")]_vars
    /\ [][exc # "none" => (exc' = exc /\ pc' \in {"finally", "raised"})]_vars
    /\ [][pc = "raised" => (pc' = "raised" /\ results' = results)]_vars

\* C31 witness: a session has been left by an exception with two
\* TestResults accumulated and nothing saved.
C31_Witness ==
    /\ pc = "raised"
    /\ exc \in {"OSError", "TimeoutExpired", "KeyboardInterrupt"}
    /\ Len(results) >= 2
    /\ saved = <<>>

====
